---- MODULE Spec2Model ----
(***************************************************************************)
(* Model of multicorn/corns/extensers/typeextenser.py: the cast functions  *)
(* (to_datetime, to_date, to_type, to_number, to_unicode), the fixed       *)
(* offset time zone, and the TypeExtenser converter registry with its      *)
(* register operation.                                                     *)
(*                                                                         *)
(* Python values are records tagged by field t; every Python type has its  *)
(* own payload field names.  Text is a sequence of one-character strings.  *)
(***************************************************************************)
EXTENDS Integers, Sequences, FiniteSets, TLC

VARIABLES wrapped_corn,      \* wrapped_corn.properties: name -> Type
          type_converters,   \* the constructor's type_converters argument
          converters,        \* self.converters: type -> converter
          properties,        \* self.properties: name -> Type
          named_convertors,  \* self.named_convertors: Type -> Converter
          last,              \* history: the last register call and its pre-state
          ncalls,            \* history: the number of register calls made
          call               \* history: the last cast function call

vars == <<wrapped_corn, type_converters, converters, properties,
          named_convertors, last, ncalls, call>>

\* the decorator's own state
decorator == <<wrapped_corn, type_converters, converters, properties,
               named_convertors, last, ncalls>>

(***************************************************************************)
(* Python values                                                           *)
(***************************************************************************)
None == [t |-> "None"]
PyInt(n) == [t |-> "int", i |-> n]
PyBool(b) == [t |-> "bool", bit |-> b]
\* a float with one decimal digit, held in tenths
PyFloat(n10) == [t |-> "float", x10 |-> n10]
\* a decimal.Decimal with one decimal digit, held in tenths
PyDecimal(n10) == [t |-> "Decimal", d10 |-> n10]
PyUnicode(chars) == [t |-> "unicode", s |-> chars]
PyBytes(chars) == [t |-> "bytes", b |-> chars]
PyDate(y, m, d) == [t |-> "date", year |-> y, month |-> m, day |-> d]
NoTz == [tz |-> "naive"]
PyDateTime(y, m, d, H, M, S, tz) ==
    [t |-> "datetime", year |-> y, month |-> m, day |-> d,
     hour |-> H, minute |-> M, second |-> S, tzinfo |-> tz]

(***************************************************************************)
(* Text: the str methods and builtins the cast functions use               *)
(***************************************************************************)
DigitChars == <<"0", "1", "2", "3", "4", "5", "6", "7", "8", "9">>

IsDigit(c) == \E k \in 1..Len(DigitChars) : DigitChars[k] = c

DigitVal(c) == (CHOOSE k \in 1..Len(DigitChars) : DigitChars[k] = c) - 1

AllDigits(s) == \A k \in 1..Len(s) : IsDigit(s[k])

RECURSIVE ToNat(_)
ToNat(s) == IF s = <<>> THEN 0
            ELSE 10 * ToNat(SubSeq(s, 1, Len(s) - 1)) + DigitVal(s[Len(s)])

RECURSIVE NatToChars(_)
NatToChars(n) == IF n < 10 THEN <<DigitChars[n + 1]>>
                 ELSE NatToChars(n \div 10) \o <<DigitChars[(n % 10) + 1]>>

\* s.replace(c, "") for a one-character c
replace(s, c) == SelectSeq(s, LAMBDA x : x # c)

\* s[:n] and s[n:]
slice_to(s, n) == SubSeq(s, 1, IF n < Len(s) THEN n ELSE Len(s))
slice_from(s, n) == SubSeq(s, n + 1, Len(s))

\* s.endswith(c) for a one-character c
endswith(s, c) == Len(s) > 0 /\ s[Len(s)] = c

IsText(v) == v.t \in {"unicode", "bytes"}
Chars(v) == IF v.t = "unicode" THEN v.s ELSE v.b
SameText(v, chars) == IF v.t = "unicode" THEN PyUnicode(chars) ELSE PyBytes(chars)

\* int(s) for text s: an optional sign, then one or more digits
int_of_text(s) ==
    LET signed == Len(s) > 0 /\ s[1] \in {"+", "-"}
        body == IF signed THEN Tail(s) ELSE s
    IN  IF body # <<>> /\ AllDigits(body)
        THEN [ok |-> TRUE,
              n |-> IF signed /\ s[1] = "-" THEN 0 - ToNat(body) ELSE ToNat(body)]
        ELSE [ok |-> FALSE]

\* "%+03i" % n and "%02i" % n
fmt_plus03i(n) ==
    LET mag == NatToChars(IF n < 0 THEN 0 - n ELSE n)
    IN  <<IF n < 0 THEN "-" ELSE "+">> \o (IF Len(mag) < 2 THEN <<"0">> ELSE <<>>) \o mag
fmt_02i(n) ==
    IF n < 0 THEN <<"-">> \o NatToChars(0 - n)
    ELSE (IF n < 10 THEN <<"0">> ELSE <<>>) \o NatToChars(n)

ValueError(msg, names, target) ==
    [t |-> "ValueError", msg |-> msg, names |-> names, target |-> target]
IsError(v) == v.t = "ValueError"

(***************************************************************************)
(* datetime.datetime.strptime for the directives %Y %m %d %H %M %S.  The   *)
(* library compiles the format to a regular expression whose fields try    *)
(* their two-digit alternatives before the one-digit one, takes the first  *)
(* match of a prefix of the text, rejects text left over, and then builds  *)
(* the datetime, which validates the calendar date.  (The blank-padded day *)
(* alternative is left out: no input here holds a blank.)                  *)
(***************************************************************************)
FieldMax(f) == CASE f = "m" -> 12 [] f = "d" -> 31 [] f = "H" -> 23
                 [] f = "M" -> 59 [] f = "S" -> 61
FieldMin(f) == IF f \in {"m", "d"} THEN 1 ELSE 0

FieldMatches(f, s, pos, w) ==
    /\ pos + w - 1 <= Len(s)
    /\ AllDigits(SubSeq(s, pos, pos + w - 1))
    /\ LET n == ToNat(SubSeq(s, pos, pos + w - 1))
       IN  CASE f = "Y" -> w = 4
             [] w = 2   -> n >= FieldMin(f) /\ n <= FieldMax(f)
             [] OTHER   -> w = 1 /\ n >= FieldMin(f)

NoMatch == [ok |-> FALSE]

RECURSIVE RegexMatch(_, _, _)
RegexMatch(s, pos, fmt) ==
    IF fmt = <<>> THEN [ok |-> TRUE, vals |-> <<>>, end |-> pos]
    ELSE LET f == Head(fmt)
             Try(w) == IF FieldMatches(f, s, pos, w)
                       THEN LET r == RegexMatch(s, pos + w, Tail(fmt))
                            IN  IF r.ok
                                THEN [ok |-> TRUE,
                                      vals |-> <<ToNat(SubSeq(s, pos, pos + w - 1))>> \o r.vals,
                                      end |-> r.end]
                                ELSE NoMatch
                       ELSE NoMatch
         IN  IF f = "Y" THEN Try(4)
             ELSE IF Try(2).ok THEN Try(2) ELSE Try(1)

IsLeap(y) == (y % 4 = 0 /\ y % 100 # 0) \/ y % 400 = 0
DaysInMonth(y, m) == CASE m \in {4, 6, 9, 11} -> 30
                       [] m = 2 -> IF IsLeap(y) THEN 29 ELSE 28
                       [] OTHER -> 31

Ymd == <<"Y", "m", "d">>
YmdHMS == <<"Y", "m", "d", "H", "M", "S">>
FmtName(fmt) == IF fmt = Ymd THEN "%Y%m%d" ELSE "%Y%m%d%H%M%S"

\* text is a text value, fmt a sequence of directives; the result is a naive
\* datetime or the ValueError the library raises
strptime(text, fmt) ==
    LET s == Chars(text)
        r == RegexMatch(s, 1, fmt)
        g(k) == IF k <= Len(r.vals) THEN r.vals[k] ELSE 0
    IN  IF ~r.ok
        THEN ValueError("time data does not match format", text, FmtName(fmt))
        ELSE IF r.end # Len(s) + 1
        THEN ValueError("unconverted data remains",
                        SameText(text, SubSeq(s, r.end, Len(s))), FmtName(fmt))
        ELSE IF g(1) < 1 \/ g(3) > DaysInMonth(g(1), g(2)) \/ g(6) > 59
        THEN ValueError("out of range", None, FmtName(fmt))
        ELSE PyDateTime(g(1), g(2), g(3), g(4), g(5), g(6), NoTz)

(***************************************************************************)
(* The cast functions                                                      *)
(***************************************************************************)
\* FixedOffsetTimeZone.__init__: the offset in minutes east of UTC and the name
FixedOffsetTimeZone(offset_hours, offset_minutes) ==
    [tz |-> "fixed",
     offset |-> offset_hours * 60 + offset_minutes,
     name |-> <<"U", "T", "C">> \o fmt_plus03i(offset_hours) \o <<":">>
              \o fmt_02i(offset_minutes)]

\* value.replace("-", "").replace(":", "").replace("T", "")
datetime_normalize(chars) == replace(replace(replace(chars, "-"), ":"), "T")

\* the branch of to_datetime taken when len(value) == 19
datetime_with_offset(value) ==
    LET time == SameText(value, slice_to(Chars(value), 14))
        timezone == slice_from(Chars(value), 14)
        hours == slice_to(timezone, 2)
        minutes == slice_from(timezone, 2)
        parsed == strptime(time, YmdHMS)
    IN  IF IsError(parsed) THEN parsed
        ELSE IF ~int_of_text(hours).ok
        THEN ValueError("invalid literal for int()", SameText(value, hours), "int")
        ELSE IF ~int_of_text(minutes).ok
        THEN ValueError("invalid literal for int()", SameText(value, minutes), "int")
        ELSE [parsed EXCEPT !.tzinfo =
                 FixedOffsetTimeZone(int_of_text(hours).n, int_of_text(minutes).n)]

to_datetime(value) ==
    IF value.t = "datetime" THEN value
    ELSE IF value.t = "date"
    THEN PyDateTime(value.year, value.month, value.day, 0, 0, 0, NoTz)
    ELSE IF IsText(value)
    THEN LET v1 == SameText(value, datetime_normalize(Chars(value)))
             n1 == Len(Chars(v1))
         IN  IF n1 = 8 THEN strptime(v1, Ymd)
             ELSE IF n1 = 14 THEN strptime(v1, YmdHMS)
             ELSE LET v2 == IF n1 = 15 /\ endswith(Chars(v1), "Z")
                            THEN SameText(v1, slice_to(Chars(v1), n1 - 1)
                                              \o <<"+", "0", "0", "0", "0">>)
                            ELSE v1
                  IN  IF Len(Chars(v2)) = 19 THEN datetime_with_offset(v2)
                      ELSE ValueError("cannot be cast", v2, "datetime")
    ELSE ValueError("cannot be cast", value, "datetime")

\* value.replace("-", "").replace(":", "")
date_normalize(chars) == replace(replace(chars, "-"), ":")

\* datetime.date() of a datetime
date_of(dt) == PyDate(dt.year, dt.month, dt.day)

to_date(value) ==
    IF value.t = "datetime" THEN date_of(value)
    ELSE IF value.t = "date" THEN value
    ELSE IF IsText(value)
    THEN LET parsed == strptime(SameText(value, date_normalize(Chars(value))), Ymd)
         IN  IF IsError(parsed) THEN parsed ELSE date_of(parsed)
    ELSE ValueError("cannot be cast", value, "date")

\* to_unicode: a unicode value is returned as it is; any other value is
\* decoded or stringified and then handed to unicodedata.normalize, a name the
\* module never imports
to_unicode(value) ==
    IF value.t = "unicode" THEN value
    ELSE [t |-> "NameError", global |-> "unicodedata"]

\* isinstance(value, data_type); bool is a subclass of int
isinstance(value, data_type) ==
    value.t = data_type \/ (data_type = "int" /\ value.t = "bool")

\* not value
Falsy(value) ==
    CASE value.t = "None" -> TRUE
      [] value.t = "int" -> value.i = 0
      [] value.t = "bool" -> ~value.bit
      [] value.t = "float" -> value.x10 = 0
      [] value.t = "Decimal" -> value.d10 = 0
      [] IsText(value) -> Chars(value) = <<>>
      [] OTHER -> FALSE

\* a number as tenths, for the numeric values
Tenths(value) ==
    CASE value.t = "int" -> 10 * value.i
      [] value.t = "bool" -> IF value.bit THEN 10 ELSE 0
      [] value.t = "float" -> value.x10
      [] value.t = "Decimal" -> value.d10

\* tenths truncated toward zero, as int() truncates
Trunc(n10) == IF n10 < 0 THEN 0 - ((0 - n10) \div 10) ELSE n10 \div 10

\* the literals float() and Decimal() read: [sign] digits [. [digits]] or
\* [sign] . digits; a value here keeps one decimal digit
decimal_of_text(s) ==
    LET signed == Len(s) > 0 /\ s[1] \in {"+", "-"}
        body == IF signed THEN Tail(s) ELSE s
        dots == {k \in 1..Len(body) : body[k] = "."}
        at == IF dots = {} THEN Len(body) + 1 ELSE CHOOSE k \in dots : TRUE
        whole == SubSeq(body, 1, at - 1)
        frac == SubSeq(body, at + 1, Len(body))
        mag == 10 * ToNat(whole) + ToNat(frac)
    IN  IF /\ Cardinality(dots) <= 1
           /\ AllDigits(whole) /\ AllDigits(frac) /\ Len(frac) <= 1
           /\ (whole # <<>> \/ frac # <<>>)
        THEN [ok |-> TRUE, n |-> IF signed /\ s[1] = "-" THEN 0 - mag ELSE mag]
        ELSE [ok |-> FALSE]

\* data_type(value) for the numeric types: [ok, v]
construct(data_type, value) ==
    LET numeric == value.t \in {"int", "bool", "float", "Decimal"}
    IN  CASE data_type = "int" ->
               IF numeric THEN [ok |-> TRUE, v |-> PyInt(Trunc(Tenths(value)))]
               ELSE IF IsText(value) /\ int_of_text(Chars(value)).ok
               THEN [ok |-> TRUE, v |-> PyInt(int_of_text(Chars(value)).n)]
               ELSE [ok |-> FALSE]
          [] data_type = "float" ->
               IF numeric THEN [ok |-> TRUE, v |-> PyFloat(Tenths(value))]
               ELSE IF IsText(value) /\ decimal_of_text(Chars(value)).ok
               THEN [ok |-> TRUE, v |-> PyFloat(decimal_of_text(Chars(value)).n)]
               ELSE [ok |-> FALSE]
          [] data_type = "Decimal" ->
               IF numeric THEN [ok |-> TRUE, v |-> PyDecimal(Tenths(value))]
               ELSE IF IsText(value) /\ decimal_of_text(Chars(value)).ok
               THEN [ok |-> TRUE, v |-> PyDecimal(decimal_of_text(Chars(value)).n)]
               ELSE [ok |-> FALSE]

to_type(value, data_type) ==
    IF isinstance(value, data_type) \/ value = None THEN value
    ELSE IF construct(data_type, value).ok THEN construct(data_type, value).v
    ELSE ValueError("cannot be cast", value, data_type)

\* to_number as it would be without the branch for falsy values
to_number_no_zero(value, data_type) ==
    IF isinstance(value, data_type) \/ value = None THEN value
    ELSE to_type(value, data_type)

to_number(value, data_type) ==
    IF isinstance(value, data_type) \/ value = None THEN value
    ELSE IF Falsy(value) THEN construct(data_type, PyInt(0)).v
    ELSE to_type(value, data_type)

(***************************************************************************)
(* TypeExtenser: the converter registry and register                       *)
(***************************************************************************)
\* a converter is named by the function it is; NoConverter is Python's None
NoConverter == "None"
KeyError == "KeyError"

\* Type(corn=..., type=..., name=...): a property descriptor.  The class is
\* defined outside these sources; two descriptors are taken to be the same
\* dictionary key exactly when their three attributes are equal.
Type(corn, type, name) == [corn |-> corn, type |-> type, name |-> name]

\* the namedtuple Converter(down, up)
Converter(down, up) == [down |-> down, up |-> up]

default_converters ==
    [ty \in {"unicode", "bytes", "int", "float", "Decimal", "datetime", "date",
             "bool", "dict", "object"} |->
        CASE ty = "unicode" -> "to_unicode"
          [] ty = "bytes" -> "to_bytes"
          [] ty = "int" -> "to_number_int"
          [] ty = "float" -> "to_number_float"
          [] ty = "Decimal" -> "to_number_Decimal"
          [] ty = "datetime" -> "to_datetime"
          [] ty = "date" -> "to_date"
          [] ty = "bool" -> "bool"
          [] ty = "dict" -> "dict"
          [] ty = "object" -> "identity"]

\* init_converters as it would be with the update applied the other way round
init_converters_defaults_win(overrides) == default_converters @@ overrides

\* __init__: self.converters = default_converters.copy(), then
\* self.converters.update(type_converters)
init_converters(overrides) == overrides @@ default_converters

\* d[k], with the KeyError a missing key raises
getitem(d, k) == IF k \in DOMAIN d THEN d[k] ELSE KeyError

\* register, line 251: name not in self.wrapped_corn.properties
unknown_property(name) == name \notin DOMAIN wrapped_corn

\* register, line 253: self.properties[name] = Type(corn=self, type=type, name=name)
declare_property(name, type) ==
    [n \in DOMAIN properties \cup {name} |->
        IF n = name THEN Type("self", type, name) ELSE properties[n]]

\* down_converter as it would be with dict.get in place of the subscript
down_converter_deferred(name, custom_down) ==
    IF custom_down # NoConverter THEN custom_down
    ELSE IF wrapped_corn[name].type \in DOMAIN converters
    THEN converters[wrapped_corn[name].type]
    ELSE NoConverter

\* register, lines 254-257
down_converter(name, custom_down) ==
    IF custom_down # NoConverter THEN custom_down
    ELSE getitem(converters, wrapped_corn[name].type)

\* up_converter as it would be if it looked up the parameter's default, object
up_converter_default_type(type, custom_up) ==
    IF custom_up # NoConverter THEN custom_up
    ELSE getitem(converters, "object")

\* register, lines 258-261
up_converter(type, custom_up) ==
    IF custom_up # NoConverter THEN custom_up
    ELSE getitem(converters, type)

\* register, line 262: self.named_convertors[self.properties[name]] = Converter(...)
store_binding(key, down, up) ==
    [k \in DOMAIN named_convertors \cup {key} |->
        IF k = key THEN Converter(down, up) ELSE named_convertors[k]]

\* register as it would be with the property declared before the name is checked
register_outcome_declares_first(name, type, custom_down, custom_up) ==
    IF unknown_property(name)
    THEN [result |-> "KeyError: nonexistent property",
          properties |-> declare_property(name, type),
          named_convertors |-> named_convertors]
    ELSE LET declared == declare_property(name, type)
             down == down_converter(name, custom_down)
             up == up_converter(type, custom_up)
         IN  IF down = KeyError \/ up = KeyError
             THEN [result |-> "KeyError: no converter",
                   properties |-> declared, named_convertors |-> named_convertors]
             ELSE [result |-> "ok",
                   properties |-> declared,
                   named_convertors |-> store_binding(declared[name], down, up)]

\* what a register call leaves behind: its outcome and the two tables.  An
\* exception leaves every assignment made before it in place.
register_outcome(name, type, custom_down, custom_up) ==
    IF unknown_property(name)
    THEN [result |-> "KeyError: nonexistent property",
          properties |-> properties, named_convertors |-> named_convertors]
    ELSE LET declared == declare_property(name, type)
             down == down_converter(name, custom_down)
             up == up_converter(type, custom_up)
         IN  IF down = KeyError \/ up = KeyError
             THEN [result |-> "KeyError: no converter",
                   properties |-> declared, named_convertors |-> named_convertors]
             ELSE [result |-> "ok",
                   properties |-> declared,
                   named_convertors |-> store_binding(declared[name], down, up)]

\* a converter applied to a value, for the converters modelled here
apply_converter(conv, value) ==
    CASE conv = "to_unicode" -> to_unicode(value)
      [] conv = "to_datetime" -> to_datetime(value)
      [] conv = "to_date" -> to_date(value)
      [] conv = "to_number_int" -> to_number(value, "int")
      [] conv = "to_number_float" -> to_number(value, "float")
      [] conv = "to_number_Decimal" -> to_number(value, "Decimal")
      [] conv = "bool" -> PyBool(~Falsy(value))
      [] conv = "identity" -> value
      [] OTHER -> [t |-> "external", by |-> conv]

(***************************************************************************)
(* The decorator as a state machine                                        *)
(***************************************************************************)
\* the number of register calls a run makes
MaxCalls == 3

PropertyNames == {"born", "loc", "ghost"}
TargetTypes == {"datetime", "Point"}
CustomDowns == {NoConverter, "custom_down"}
CustomUps == {NoConverter, "custom_up"}

EmptyDict == [k \in {} |-> k]

WrappedCorns ==
    {[n \in {"born", "loc"} |->
        Type("wrapped", IF n = "born" THEN "unicode" ELSE loc_type, n)] :
     loc_type \in {"Point", "int"}}

Overrides ==
    {EmptyDict} \cup {[ty \in {ovr} |-> "override_" \o ovr] :
                      ovr \in {"unicode", "datetime", "Point"}}

NoCall == [fn |-> "none"]

\* self.properties as the base class constructor leaves it: the decorator
\* copies no property of the wrapped source
inherited_properties == EmptyDict

Init ==
    /\ wrapped_corn \in WrappedCorns
    /\ type_converters \in Overrides
    /\ converters = init_converters(type_converters)
    /\ properties = inherited_properties
    /\ named_convertors = EmptyDict
    /\ last = NoCall
    /\ ncalls = 0
    /\ call = NoCall

register(name, type, custom_down, custom_up) ==
    LET out == register_outcome(name, type, custom_down, custom_up)
    IN  /\ ncalls < MaxCalls
        /\ ncalls' = ncalls + 1
        /\ properties' = out.properties
        /\ named_convertors' = out.named_convertors
        /\ last' = [fn |-> "register", name |-> name, type |-> type,
                    custom_down |-> custom_down, custom_up |-> custom_up,
                    result |-> out.result,
                    pre_properties |-> properties,
                    pre_named_convertors |-> named_convertors]
        /\ UNCHANGED <<wrapped_corn, type_converters, converters, call>>

Next ==
    \E name \in PropertyNames, type \in TargetTypes,
       custom_down \in CustomDowns, custom_up \in CustomUps :
        register(name, type, custom_down, custom_up)

Spec == Init /\ [][Next]_vars

(***************************************************************************)
(* The cast functions called on their own                                  *)
(***************************************************************************)
\* the texts handed to to_datetime and to_date: a date part, a time part and
\* a zone suffix, each possibly empty or malformed
DateParts ==
    {<<"2", "0", "1", "0", "-", "0", "8", "-", "0", "4">>,
     <<"2", "0", "1", "0", "0", "8", "0", "4">>,
     <<"2", "0", "1", "0", ":", "0", "8", ":", "0", "4">>,
     <<"2", "0", "1", "0", "-", "8", "-", "4">>,
     <<"2", "0", "1", "0", "-", "1", "-", "1", "4">>,
     <<"2", "0", "1", "0", "-", "1", "1", "-", "4">>,
     <<"2", "0", "1", "0", "-", "8", "-", "0", "4">>,
     <<"2", "0", "1", "0", "-", "1", "3", "-", "0", "1">>,
     <<"2", "0", "1", "0", "-", "0", "2", "-", "3", "0">>,
     <<"2", "0", "1", "2", "-", "0", "2", "-", "2", "9">>,
     <<"1", "9", "9", "0", "-", "0", "1", "-", "0", "1">>,
     <<"2", "0", "1", "0", "-", "0", "8">>,
     <<"e", "g", "g", "s">>,
     <<>>}
TimeParts ==
    {<<>>,
     <<"T", "2", "0", ":", "3", "4", ":", "3", "1">>,
     <<"-", "2", "0", "3", "4", "3", "1">>,
     <<"T", "2", "0", ":", "3", "4">>,
     <<"T", "2", "4", ":", "0", "0", ":", "0", "0">>,
     <<"T", "2", "0", ":", "3", "4", ":", "3">>}
ZoneParts ==
    {<<>>,
     <<"Z">>,
     <<"+", "0", "2", ":", "3", "0">>,
     <<"-", "0", "2", ":", "3", "0">>,
     <<"+", "0", "2", "3", "0">>,
     <<"-", "0", "2", "3", "0">>,
     <<"+", "0", "0", "0", "0">>,
     <<"+", "1", "2", ":", "0", "0">>,
     <<"+", "a", "b", ":", "c", "d">>,
     <<"+", "2", ":", "3", "0">>}

Texts == {d \o tm \o z : d \in DateParts, tm \in TimeParts, z \in ZoneParts}

Zones == {NoTz, FixedOffsetTimeZone(0, 0), FixedOffsetTimeZone(-2, 30)}

TemporalInputs ==
    {PyUnicode(x) : x \in Texts}
    \cup {PyBytes(d) : d \in DateParts}
    \cup {PyDate(2010, 8, 4), PyDate(2012, 2, 29)}
    \cup {PyDateTime(2010, 8, 4, H, 34, 31, z) : H \in {0, 20}, z \in Zones}
    \cup {None, PyInt(10)}

NumericTypes == {"int", "float", "Decimal"}

NumberTexts ==
    {<<>>,
     <<"0">>,
     <<"1", "2">>,
     <<"-", "3">>,
     <<"+", "7">>,
     <<"e", "g", "g", "s">>,
     <<"1", ".", "5">>,
     <<"-", "2", ".", "5">>,
     <<"1", ".">>,
     <<"1", "2", "a">>}

NumberInputs ==
    {None, PyBool(TRUE), PyBool(FALSE), PyDate(2010, 8, 4)}
    \cup {PyInt(n) : n \in {0, 7, -3}}
    \cup {PyFloat(n) : n \in {0, 25, -25, 70}}
    \cup {PyDecimal(n) : n \in {0, 15}}
    \cup {PyUnicode(x) : x \in NumberTexts}
    \cup {PyBytes(x) : x \in NumberTexts}

\* a cast function's argument, drawn before the call
Pending(kind, value) == [fn |-> "pending", kind |-> kind, arg |-> value]

CastInit ==
    /\ wrapped_corn \in WrappedCorns
    /\ wrapped_corn["loc"].type = "Point"
    /\ type_converters = EmptyDict
    /\ converters = init_converters(type_converters)
    /\ properties = inherited_properties
    /\ named_convertors = EmptyDict
    /\ last = NoCall
    /\ ncalls = 0
    /\ call \in {Pending("temporal", v) : v \in TemporalInputs}
                \cup {Pending("number", v) : v \in NumberInputs}

call_to_datetime ==
    /\ call.fn = "pending" /\ call.kind = "temporal"
    /\ call' = [fn |-> "to_datetime", arg |-> call.arg, res |-> to_datetime(call.arg)]
    /\ UNCHANGED decorator

call_to_date ==
    /\ call.fn = "pending" /\ call.kind = "temporal"
    /\ call' = [fn |-> "to_date", arg |-> call.arg, res |-> to_date(call.arg)]
    /\ UNCHANGED decorator

call_to_number(data_type) ==
    /\ call.fn = "pending" /\ call.kind = "number"
    /\ call' = [fn |-> "to_number", arg |-> call.arg, data_type |-> data_type,
                res |-> to_number(call.arg, data_type)]
    /\ UNCHANGED decorator

CastNext ==
    \/ call_to_datetime
    \/ call_to_date
    \/ \E data_type \in NumericTypes : call_to_number(data_type)

CastSpec == CastInit /\ [][CastNext]_vars

(***************************************************************************)
(* Properties of register, checked under Spec                              *)
(***************************************************************************)
Registered == last.fn = "register"
Succeeded == Registered /\ last.result = "ok"

\* the bindings the table holds for a property name
Bindings(n) == {k \in DOMAIN named_convertors : k.name = n}

\* the registry as the constructor's arguments define it
HasEntry(ty) == ty \in DOMAIN type_converters \cup DOMAIN default_converters
RegistryEntry(ty) ==
    IF ty \in DOMAIN type_converters THEN type_converters[ty]
    ELSE default_converters[ty]

\* C1: register with a name the wrapped source does not declare fails with the
\* unknown-property error and leaves the binding table and the decorator's
\* declared properties as they were before the call.
C1_UnknownPropertyRejected ==
    (Registered /\ last.name \notin DOMAIN wrapped_corn) =>
        /\ last.result = "KeyError: nonexistent property"
        /\ named_convertors = last.pre_named_convertors
        /\ properties = last.pre_properties

C1_Witness ==
    /\ Registered
    /\ last.name = "ghost"
    /\ last.result = "KeyError: nonexistent property"
    /\ DOMAIN named_convertors # {}

\* C2: after a successful register call the binding table holds exactly one
\* binding for that property name, the (down, up) pair of that call.
C2_OneBindingPerName ==
    Succeeded =>
        /\ Bindings(last.name) = {properties[last.name]}
        /\ Cardinality(Bindings(last.name)) = 1

\* C3 takes the wrapped property born of native type text, registered with
\* target type datetime, no custom converters and no constructor overrides.
BornAsDatetime ==
    /\ Succeeded
    /\ last.name = "born" /\ last.type = "datetime"
    /\ last.custom_down = NoConverter /\ last.custom_up = NoConverter
    /\ wrapped_corn["born"].type = "unicode"
    /\ type_converters = EmptyDict

RawBorn == PyUnicode(<<"1", "9", "9", "0", "-", "0", "1", "-", "0", "1">>)
Born == PyDateTime(1990, 1, 1, 0, 0, 0, NoTz)
BornBinding == named_convertors[properties["born"]]

C4_ConverterPrecedence ==
    Succeeded =>
        LET binding == named_convertors[properties[last.name]]
            native == wrapped_corn[last.name].type
        IN  /\ properties[last.name] = Type("self", last.type, last.name)
            /\ binding.down = IF last.custom_down # NoConverter THEN last.custom_down
                              ELSE RegistryEntry(native)
            /\ binding.up = IF last.custom_up # NoConverter THEN last.custom_up
                            ELSE RegistryEntry(last.type)

C4_Witness ==
    /\ Succeeded
    /\ last.custom_down = NoConverter /\ last.custom_up # NoConverter
    /\ wrapped_corn[last.name].type \in DOMAIN type_converters
    /\ named_convertors[properties[last.name]].down = "override_unicode"

\* C5: a register call that needs a registry entry that does not exist fails
\* with the missing-converter error in the call itself and stores no binding,
\* so no binding ever holds a missing converter; a call that gives both custom
\* converters succeeds whatever the registry holds.
C5_MissingConverterAtRegistration ==
    /\ (Registered /\ last.name \in DOMAIN wrapped_corn) =>
          LET native == wrapped_corn[last.name].type
              needs_down == last.custom_down = NoConverter /\ ~HasEntry(native)
              needs_up == last.custom_up = NoConverter /\ ~HasEntry(last.type)
          IN  /\ (needs_down \/ needs_up) =>
                     /\ last.result = "KeyError: no converter"
                     /\ named_convertors = last.pre_named_convertors
              /\ (last.custom_down # NoConverter /\ last.custom_up # NoConverter) =>
                     last.result = "ok"
              /\ ~(needs_down \/ needs_up) => last.result = "ok"
    /\ \A k \in DOMAIN named_convertors :
          /\ named_convertors[k].down \notin {NoConverter, KeyError}
          /\ named_convertors[k].up \notin {NoConverter, KeyError}

C5_Witness ==
    /\ Registered
    /\ last.result = "KeyError: no converter"
    /\ last.name = "loc" /\ last.type = "datetime"
    /\ last.custom_down = NoConverter
    /\ DOMAIN named_convertors # {}

\* C10: after any sequence of register calls every property the decorator
\* declares exists in the wrapped source and has exactly one binding, every
\* binding's key is a currently declared property, and a failed call changes
\* neither table.
C10_TablesConsistent ==
    /\ \A n \in DOMAIN properties :
          n \in DOMAIN wrapped_corn /\ Bindings(n) = {properties[n]}
    /\ \A k \in DOMAIN named_convertors :
          k.name \in DOMAIN properties /\ properties[k.name] = k
    /\ (Registered /\ last.result # "ok") =>
          properties = last.pre_properties /\ named_convertors = last.pre_named_convertors

(***************************************************************************)
(* Properties of the cast functions, checked under CastSpec                *)
(***************************************************************************)
\* a trailing +HH:MM, -HH:MM, +HHMM or -HHMM and the text before it
ZoneSuffix(c) ==
    LET n == Len(c)
        colon == /\ n >= 6 /\ c[n - 5] \in {"+", "-"} /\ c[n - 2] = ":"
                 /\ AllDigits(<<c[n - 4], c[n - 3], c[n - 1], c[n]>>)
        plain == /\ n >= 5 /\ c[n - 4] \in {"+", "-"}
                 /\ AllDigits(SubSeq(c, n - 3, n))
    IN  IF colon
        THEN [ok |-> TRUE, sign |-> c[n - 5], hh |-> <<c[n - 4], c[n - 3]>>,
              mm |-> <<c[n - 1], c[n]>>, prefix |-> SubSeq(c, 1, n - 6)]
        ELSE IF plain
        THEN [ok |-> TRUE, sign |-> c[n - 4], hh |-> <<c[n - 3], c[n - 2]>>,
              mm |-> <<c[n - 1], c[n]>>, prefix |-> SubSeq(c, 1, n - 5)]
        ELSE [ok |-> FALSE]

\* C6: a datetime text followed by a signed offset suffix yields the datetime
\* of its first 14 normalized characters with a fixed offset of that signed
\* HH:MM displacement and the zone name UTC+HH:MM or UTC-HH:MM.
C6_SignedOffsetHonoured ==
    (call.fn = "to_datetime" /\ IsText(call.arg)) =>
        LET z == ZoneSuffix(Chars(call.arg))
            local == SameText(call.arg, datetime_normalize(z.prefix))
            minutes == 60 * ToNat(z.hh) + ToNat(z.mm)
        IN  (z.ok /\ Len(Chars(local)) = 14 /\ ~IsError(strptime(local, YmdHMS))) =>
                call.res = [strptime(local, YmdHMS) EXCEPT !.tzinfo =
                               [tz |-> "fixed",
                                offset |-> IF z.sign = "-" THEN 0 - minutes ELSE minutes,
                                name |-> <<"U", "T", "C", z.sign>> \o z.hh \o <<":">> \o z.mm]]

\* the shapes to_datetime takes: a datetime, a date, or a text whose
\* normalized form has 8, 14 or 19 characters, or 15 ending in Z
AcceptedShape(v) ==
    \/ v.t \in {"datetime", "date"}
    \/ /\ IsText(v)
       /\ LET c == datetime_normalize(Chars(v))
          IN  Len(c) \in {8, 14, 19} \/ (Len(c) = 15 /\ endswith(c, "Z"))

\* C7: to_datetime fails on every input outside the accepted shapes, and
\* every failure is the coercion error naming the original input value and
\* the target "datetime".
C7_FailureNamesOriginalValue ==
    call.fn = "to_datetime" =>
        /\ ~AcceptedShape(call.arg) => IsError(call.res)
        /\ IsError(call.res) =>
              call.res = ValueError("cannot be cast", call.arg, "datetime")

\* a text with its '-' and ':' taken out
Stripped(v) == SelectSeq(Chars(v), LAMBDA x : x \notin {"-", ":"})

\* C8: to_date accepts a text only if, with '-' and ':' stripped, it has
\* exactly the 8 characters YYYYMMDD, and then returns that date; it does not
\* depend on the separators and returns its own results unchanged.
C8_OnlyEightCharacters ==
    call.fn = "to_date" =>
        /\ (IsText(call.arg) /\ ~IsError(call.res)) =>
              LET c == Stripped(call.arg)
              IN  /\ Len(c) = 8 /\ AllDigits(c)
                  /\ call.res = PyDate(ToNat(SubSeq(c, 1, 4)), ToNat(SubSeq(c, 5, 6)),
                                       ToNat(SubSeq(c, 7, 8)))
        /\ IsText(call.arg) => call.res = to_date(SameText(call.arg, Stripped(call.arg)))
        /\ ~IsError(call.res) => to_date(call.res) = call.res

ZeroOf(data_type) ==
    CASE data_type = "int" -> PyInt(0)
      [] data_type = "float" -> PyFloat(0)
      [] data_type = "Decimal" -> PyDecimal(0)

\* C9: to_number(value, T) returns value unchanged when it is an instance of
\* T or None, T(0) when it is falsy and not None, and otherwise T(value), or
\* the coercion error naming the value and T when T(value) fails.
C9_ToNumber ==
    call.fn = "to_number" =>
        LET v == call.arg
            T == call.data_type
            same == isinstance(v, T) \/ v = None
        IN  /\ same => call.res = v
            /\ (~same /\ Falsy(v)) => call.res = ZeroOf(T)
            /\ (~same /\ ~Falsy(v) /\ construct(T, v).ok) => call.res = construct(T, v).v
            /\ (~same /\ ~Falsy(v) /\ ~construct(T, v).ok) =>
                  call.res = ValueError("cannot be cast", v, T)
            /\ (v = PyUnicode(<<"e", "g", "g", "s">>) /\ T = "float") =>
                  call.res = ValueError("cannot be cast", v, "float")
            /\ (v = PyUnicode(<<>>) /\ T = "int") => call.res = PyInt(0)

C9_Witness ==
    /\ call.fn = "to_number"
    /\ call.arg = PyUnicode(<<>>) /\ call.data_type = "int"
    /\ call.res = PyInt(0)

====
